---- MODULE Spec2Model ----
(***************************************************************************)
(* A model of macarico's learning-to-search core: Loss, TiedRandomness,    *)
(* one_step_deviation, LinearPolicy.greedy, the StaticFeatures / Actor     *)
(* caches with Policy.new_example and Env.run_episode, BanditLOLS and      *)
(* lols().                                                                 *)
(*                                                                         *)
(* Every Python object is one variable holding a record of its fields.     *)
(* `obs` is the observer: what the caller saw (return values, raised       *)
(* errors) and counts of calls to the abstract methods and to the          *)
(* collaborators.  A component that a specification does not exercise      *)
(* stays at Idle.                                                          *)
(***************************************************************************)
EXTENDS Integers, Sequences, FiniteSets, TLC

VARIABLES loss, tiedrnd, osd, linpol, mods, env, heap, bandit, baseline, runner,
          lols, obs

vars == <<loss, tiedrnd, osd, linpol, mods, env, heap, bandit, baseline, runner,
          lols, obs>>

Idle == [idle |-> TRUE]

\* Python's None and a present value, as sequences of length 0 and 1.
None == <<>>
Some(v) == <<v>>

RECURSIVE SumSeq(_)
SumSeq(s) == IF s = <<>> THEN 0 ELSE Head(s) + SumSeq(Tail(s))

SelectSome(s) == SelectSeq(s, LAMBDA v : v # None)

\* the values of a sequence of present values
RECURSIVE Unwrap(_)
Unwrap(s) == IF s = <<>> THEN <<>> ELSE <<Head(s)[1]>> \o Unwrap(Tail(s))

(***************************************************************************)
(* Loss (base.py 145-170)                                                  *)
(***************************************************************************)
MaxLossVal == 3
MaxLossCalls == 3

\* what evaluate() may return: a number, or None
LossVals == {None} \cup {Some(v) : v \in 0..MaxLossVal}

\* a returned number num/den (true division), or a raised TypeError
Ratio(n, d) == [kind |-> "value", num |-> n, den |-> d]
TypeError == [kind |-> "TypeError", num |-> 0, den |-> 1]

\* Loss.__init__
LossNew(corpus_level) == [corpus_level |-> corpus_level, count |-> 0, total |-> Some(0)]

\* Loss.get: total / count if count > 0 else 0; None / count raises
LossGet(l) ==
  IF l.count > 0
  THEN IF l.total = None THEN TypeError ELSE Ratio(l.total[1], l.count)
  ELSE Ratio(0, 1)

\* the state Loss.__call__ leaves, given evaluate() returned val
LossAfterCall(l, val) ==
  IF l.corpus_level
  THEN [l EXCEPT !.total = val, !.count = 1]
  ELSE IF val # None
       THEN [l EXCEPT !.total = Some(l.total[1] + val[1]), !.count = l.count + 1]
       ELSE l

\* the variables Loss's operations leave alone
LossFrame == UNCHANGED <<tiedrnd, osd, linpol, mods, env, heap, bandit, baseline, runner, lols>>

LossRestIdle ==
  tiedrnd = Idle /\ osd = Idle /\ linpol = Idle /\ mods = Idle /\ env = Idle
  /\ heap = Idle /\ bandit = Idle /\ baseline = Idle /\ runner = Idle /\ lols = Idle

LossInit ==
  /\ \E c \in BOOLEAN : loss = LossNew(c)
  /\ obs = [hist |-> <<>>, ret |-> Ratio(0, 1)]
  /\ LossRestIdle

\* Loss.__call__(truth, state): val = evaluate(truth, state); ...; return self.get()
LossCall(val) ==
  /\ Len(obs.hist) < MaxLossCalls
  /\ loss' = LossAfterCall(loss, val)
  /\ obs' = [hist |-> Append(obs.hist, val), ret |-> LossGet(loss')]
  /\ LossFrame

\* Loss.reset
LossReset ==
  /\ obs.hist # <<>>
  /\ loss' = [loss EXCEPT !.count = 0, !.total = Some(0)]
  /\ obs' = [hist |-> <<>>, ret |-> obs.ret]
  /\ LossFrame

LossNext ==
  \/ \E val \in LossVals : LossCall(val)
  \/ LossReset

SpecLoss == LossInit /\ [][LossNext]_vars

\* a returned number equal to n/d
IsNumber(r, n, d) == r.kind = "value" /\ r.num * d = n * r.den

\* C9 (as claimed): after any sequence of calls since construction or reset,
\* corpus_level => get() is the most recent call's value and count = 1;
\* otherwise count is the number of non-None values and get() is their mean;
\* get() is 0 when count is 0.
C9_LossGetAsClaimed ==
  LET h == obs.hist
      nums == Unwrap(SelectSome(h))
      g == LossGet(loss)
  IN /\ (loss.corpus_level /\ h # <<>>) =>
          /\ loss.count = 1
          /\ h[Len(h)] # None
          /\ IsNumber(g, h[Len(h)][1], 1)
     /\ ~loss.corpus_level =>
          /\ loss.count = Len(nums)
          /\ loss.count > 0 => IsNumber(g, SumSeq(nums), loss.count)
     /\ loss.count = 0 => IsNumber(g, 0, 1)

\* the part of C9 the code keeps: every case but a corpus-level None
C9_LossGetNumbers ==
  LET h == obs.hist
      nums == Unwrap(SelectSome(h))
      g == LossGet(loss)
  IN /\ (loss.corpus_level /\ h # <<>>) =>
          /\ loss.count = 1
          /\ h[Len(h)] # None => IsNumber(g, h[Len(h)][1], 1)
          /\ h[Len(h)] = None => g = TypeError
     /\ ~loss.corpus_level =>
          /\ loss.count = Len(nums)
          /\ loss.count > 0 => IsNumber(g, SumSeq(nums), loss.count)
     /\ loss.count = 0 => IsNumber(g, 0, 1)

(***************************************************************************)
(* TiedRandomness (lts/lols.py 162-173)                                    *)
(***************************************************************************)
MaxTiedT == 3
MaxRng == 1

TiedSteps == 0..(MaxTiedT - 1)
\* what rng() may return
RngVals == 0..MaxRng

EmptyDict == [x \in {} |-> 0]
DictPut(d, k, v) == [x \in (DOMAIN d) \cup {k} |-> IF x = k THEN v ELSE d[x]]

\* TiedRandomness.__init__
TiedNew == [tied |-> EmptyDict]

\* TiedRandomness.__call__ without the membership test: draws on every call
TiedLookupNoMemo(tr, t, r) == [tied |-> DictPut(tr.tied, t, r), drew |-> TRUE]

\* TiedRandomness.__call__(t), r being what rng() returns if it is called:
\* the dict afterwards, and whether rng() was called
TiedLookup(tr, t, r) ==
  IF t \notin DOMAIN tr.tied
  THEN [tied |-> DictPut(tr.tied, t, r), drew |-> TRUE]
  ELSE [tied |-> tr.tied, drew |-> FALSE]

\* obs.rets[t]: the values calls with t returned since the last reset;
\* obs.draws[t]: the rng() calls made for t since the last reset;
\* obs.prev: obs.rets as it was at the last reset; obs.again: the steps
\* called more than once since the last reset
\* the variables Tied's operations leave alone
TiedFrame == UNCHANGED <<loss, osd, linpol, mods, env, heap, bandit, baseline, runner, lols>>

TiedRestIdle ==
  loss = Idle /\ osd = Idle /\ linpol = Idle /\ mods = Idle /\ env = Idle
  /\ heap = Idle /\ bandit = Idle /\ baseline = Idle /\ runner = Idle /\ lols = Idle

TiedInit ==
  /\ tiedrnd = TiedNew
  /\ obs = [rets |-> [t \in TiedSteps |-> {}], draws |-> [t \in TiedSteps |-> 0],
            prev |-> [t \in TiedSteps |-> {}], again |-> {}]
  /\ TiedRestIdle

TiedCall(t) ==
  \E r \in RngVals :
    LET res == TiedLookup(tiedrnd, t, r) IN
    /\ tiedrnd' = [tied |-> res.tied]
    /\ obs' = [obs EXCEPT !.rets[t] = @ \cup {res.tied[t]},
                          !.draws[t] = IF res.drew THEN @ + 1 ELSE @,
                          !.again = IF obs.rets[t] # {} THEN @ \cup {t} ELSE @]
    /\ TiedFrame

\* TiedRandomness.reset
TiedReset ==
  /\ tiedrnd' = [tied |-> EmptyDict]
  /\ obs' = [rets |-> [t \in TiedSteps |-> {}], draws |-> [t \in TiedSteps |-> 0],
             prev |-> obs.rets, again |-> {}]
  /\ TiedFrame

TiedNext ==
  \/ \E t \in TiedSteps : TiedCall(t)
  \/ TiedReset

SpecTied == TiedInit /\ [][TiedNext]_vars

\* C6: between resets all calls with the same t return one value, rng() is
\* drawn at most once per t, and the first call for a t after a reset (or
\* after construction) draws: a t that has returned a value has drawn once.
C6_TiedOneDrawPerStep ==
  \A t \in TiedSteps :
    /\ Cardinality(obs.rets[t]) <= 1
    /\ obs.draws[t] = IF obs.rets[t] = {} THEN 0 ELSE 1

\* a step called before a reset and twice after it, which returned another
\* value after the reset than before
C6_Witness ==
  \E t \in TiedSteps :
    /\ obs.rets[t] # {} /\ obs.prev[t] # {} /\ obs.rets[t] # obs.prev[t]
    /\ t \in obs.again
    /\ t \in DOMAIN tiedrnd.tied

(***************************************************************************)
(* EpisodeRunner's run strategies and one_step_deviation                   *)
(* (lts/lols.py 117, 156-160)                                              *)
(***************************************************************************)
REF == 0
LEARN == 1
ACT == 2

MaxOsdT == 3
MaxOsdA == 2

OsdSteps == 0..(MaxOsdT - 1)
OsdActions == 0..(MaxOsdA - 1)

\* what a run strategy yields: EpisodeRunner.REF, EpisodeRunner.LEARN or the
\* tuple (EpisodeRunner.ACT, a); the bare tags are tuples of length one here
StratRef == <<REF>>
StratLearn == <<LEARN>>
StratAct(a) == <<ACT, a>>

\* one_step_deviation with the roll-in taken up to and including dev_t
OneStepDeviationLate(rollin, rollout, dev_t, dev_a, t) ==
  IF t <= dev_t THEN [out |-> rollin[t], called |-> {"rollin"}]
  ELSE [out |-> rollout[t], called |-> {"rollout"}]

\* one_step_deviation(rollin, rollout, dev_t, dev_a)(t): what the returned
\* lambda yields at t, and which of rollin, rollout it called (Python's
\* conditional expression evaluates only the branch it takes)
OneStepDeviation(rollin, rollout, dev_t, dev_a, t) ==
  IF t = dev_t THEN [out |-> StratAct(dev_a), called |-> {}]
  ELSE IF t < dev_t THEN [out |-> rollin[t], called |-> {"rollin"}]
  ELSE [out |-> rollout[t], called |-> {"rollout"}]

\* the roll-in and roll-out strategies one_step_deviation is given: a tag per
\* step, or (as lols() builds traj_rollin) a forced action per step
OsdRollins ==
  [OsdSteps -> {StratRef, StratLearn}] \cup [OsdSteps -> {StratAct(a) : a \in OsdActions}]
OsdRollouts == [OsdSteps -> {StratRef, StratLearn}]

\* osd: the closure one_step_deviation returned
\* the variables Osd's operations leave alone
OsdFrame == UNCHANGED <<loss, tiedrnd, linpol, mods, env, heap, bandit, baseline, runner, lols>>

OsdRestIdle ==
  loss = Idle /\ tiedrnd = Idle /\ linpol = Idle /\ mods = Idle /\ env = Idle
  /\ heap = Idle /\ bandit = Idle /\ baseline = Idle /\ runner = Idle /\ lols = Idle

OsdInit ==
  /\ \E rin \in OsdRollins, rout \in OsdRollouts, dt \in OsdSteps, da \in OsdActions :
       osd = [rollin |-> rin, rollout |-> rout, dev_t |-> dt, dev_a |-> da]
  /\ obs = [t |-> None, out |-> None, called |-> {}]
  /\ OsdRestIdle

\* the returned strategy applied at timestep t
OsdApply(t) ==
  LET res == OneStepDeviation(osd.rollin, osd.rollout, osd.dev_t, osd.dev_a, t) IN
  /\ obs' = [t |-> Some(t), out |-> res.out, called |-> res.called]
  /\ UNCHANGED osd /\ OsdFrame

OsdNext == \E t \in OsdSteps : OsdApply(t)

SpecOsd == OsdInit /\ [][OsdNext]_vars

\* C5: the strategy yields (ACT, dev_a) at t = dev_t without calling rollin
\* or rollout, rollin(t) for t < dev_t and rollout(t) for t > dev_t.
C5_OneStepDeviation ==
  obs.t # None =>
    LET t == obs.t[1] IN
    /\ t = osd.dev_t => (obs.out = <<ACT, osd.dev_a>> /\ obs.called = {})
    /\ t < osd.dev_t => obs.out = osd.rollin[t]
    /\ t > osd.dev_t => obs.out = osd.rollout[t]

\* the strategy applied at the deviation step, where rollin and rollout
\* both yield something other than the forced action
C5_Witness ==
  /\ obs.t = Some(osd.dev_t)
  /\ osd.rollin[osd.dev_t] # obs.out /\ osd.rollout[osd.dev_t] # obs.out
  /\ osd.rollin[osd.dev_t] # osd.rollout[osd.dev_t]
  /\ osd.dev_t > 0 /\ osd.dev_t < MaxOsdT - 1

(***************************************************************************)
(* LinearPolicy.greedy (__init__.py 69-81)                                 *)
(***************************************************************************)
MaxGreedyA == 3
MaxGreedyCost == 1
MaxLimitLen == 3

GreedyActions == 0..(MaxGreedyA - 1)

\* the sequences over S of length at most n
RECURSIVE SeqsUpTo(_, _)
SeqsUpTo(S, n) ==
  IF n = 0 THEN {<<>>}
  ELSE LET shorter == SeqsUpTo(S, n - 1)
       IN shorter \cup {Append(q, x) : q \in shorter, x \in S}

\* numpy's argmin over indices i..n-1 given the best so far: the first minimum
RECURSIVE ArgMinFrom(_, _, _, _)
ArgMinFrom(pred, n, i, best) ==
  IF i >= n THEN best
  ELSE ArgMinFrom(pred, n, i + 1, IF pred[i] < pred[best] THEN i ELSE best)

\* the loop body with <= for <: a later tie replaces the earlier one
GreedyStepLe(pred, best, i) ==
  IF best = None \/ pred[i] <= pred[best[1]] THEN Some(i) ELSE best

\* the body of greedy's loop: `if best is None or pred_costs[i] <
\* pred_costs[best]: best = i`
GreedyStep(pred, best, i) ==
  IF best = None \/ pred[i] < pred[best[1]] THEN Some(i) ELSE best

\* `for i in limit_actions`, in iteration order, from position k
RECURSIVE GreedyLoop(_, _, _, _)
GreedyLoop(pred, la, k, best) ==
  IF k > Len(la) THEN best
  ELSE GreedyLoop(pred, la, k + 1, GreedyStep(pred, best, la[k]))

\* LinearPolicy.greedy(state, limit_actions): limit is None or Some(la),
\* la the actions in iteration order; the result is an action or None
Greedy(pred, n, limit) ==
  IF limit = None
  THEN Some(ArgMinFrom(pred, n, 1, 0))
  ELSE GreedyLoop(pred, limit[1], 1, None)

\* linpol.pred_costs: what _lts_csoaa_predict(features(state)) gives for the
\* state at hand; obs: the last call's limit_actions and result
\* the variables Greedy's operations leave alone
GreedyFrame == UNCHANGED <<loss, tiedrnd, osd, mods, env, heap, bandit, baseline, runner, lols>>

GreedyRestIdle ==
  loss = Idle /\ tiedrnd = Idle /\ osd = Idle /\ mods = Idle /\ env = Idle
  /\ heap = Idle /\ bandit = Idle /\ baseline = Idle /\ runner = Idle /\ lols = Idle

GreedyInit ==
  /\ \E pred \in [GreedyActions -> 0..MaxGreedyCost] :
       linpol = [n_actions |-> MaxGreedyA, pred_costs |-> pred]
  /\ obs = [called |-> FALSE, limit |-> None, ret |-> None]
  /\ GreedyRestIdle

GreedyCall(limit) ==
  /\ obs' = [called |-> TRUE, limit |-> limit,
             ret |-> Greedy(linpol.pred_costs, linpol.n_actions, limit)]
  /\ UNCHANGED linpol /\ GreedyFrame

GreedyNext ==
  \E limit \in {None} \cup {Some(la) : la \in SeqsUpTo(GreedyActions, MaxLimitLen)} :
    GreedyCall(limit)

SpecGreedy == GreedyInit /\ [][GreedyNext]_vars

\* C10: with a non-empty limit_actions, greedy returns a member of
\* limit_actions whose predicted cost is minimal among them, and among tied
\* minima the first in iteration order.
C10_GreedyLeftmostMin ==
  (obs.called /\ obs.limit # None /\ obs.limit # Some(<<>>)) =>
    LET la == obs.limit[1]
        pred == linpol.pred_costs
    IN /\ obs.ret # None
       /\ \E k \in 1..Len(la) :
            /\ la[k] = obs.ret[1]
            /\ \A j \in 1..Len(la) : pred[la[j]] >= pred[la[k]]
            /\ \A j \in 1..(k - 1) : pred[la[j]] > pred[la[k]]

\* a call whose limit_actions leave out the overall cheapest action and hold
\* two tied minima, the later of them at a smaller index
C10_Witness ==
  /\ obs.called /\ obs.limit # None /\ obs.ret # None
  /\ LET la == obs.limit[1]
         pred == linpol.pred_costs
     IN /\ Len(la) >= 2
        /\ \E a \in GreedyActions : pred[a] < pred[obs.ret[1]]
        /\ \E j \in 1..Len(la) :
             /\ la[j] # obs.ret[1] /\ pred[la[j]] = pred[obs.ret[1]]
             /\ la[j] < obs.ret[1]

(***************************************************************************)
(* The feature caches: StaticFeatures, Actor, Policy.new_example and       *)
(* Env.run_episode / Env.rewind (base.py 7-143)                            *)
(***************************************************************************)
MaxEnvT == 2
MaxEnvA == 1
MaxObj == 3

EnvActions == 0..(MaxEnvA - 1)

\* The nn.Module tree of the policies at hand.  Node 1 is a policy that
\* holds a StaticFeatures (2) and a nested policy (3); the nested policy's
\* Actor (4) holds an Attention (5) over a second StaticFeatures (6).
Nodes == 1..6
KindOf == <<"Policy", "StaticFeatures", "Policy", "Actor", "Attention", "StaticFeatures">>
ChildrenOf == << <<2, 3>>, <<>>, <<4>>, <<5>>, <<6>>, <<>> >>

Policies == {n \in Nodes : KindOf[n] = "Policy"}
Statics == {n \in Nodes : KindOf[n] = "StaticFeatures"}
Actors == {n \in Nodes : KindOf[n] = "Actor"}
Caches == Statics \cup Actors

RECURSIVE ConcatAll(_)
ConcatAll(qs) == IF qs = <<>> THEN <<>> ELSE Head(qs) \o ConcatAll(Tail(qs))

\* modules() yielding a module and its direct children only
ModulesShallow(n) == <<n>> \o ChildrenOf[n]

\* nn.Module.modules(): the module itself and every module below it
RECURSIVE Modules(_)
Modules(n) ==
  <<n>> \o ConcatAll([i \in 1..Len(ChildrenOf[n]) |-> Modules(ChildrenOf[n][i])])

\* StaticFeatures.__init__, Actor.__init__: the fields the model follows
ModuleNew(n) ==
  IF KindOf[n] = "Actor"
  THEN [_features |-> None, t |-> None, T |-> None, n_actions |-> None]
  ELSE [_features |-> None]

\* Policy.new_example() on `root`, with `q` the modules still to visit
RECURSIVE NewExampleFrom(_, _, _)
NewExampleFrom(root, ms, q) ==
  IF q = <<>> THEN ms
  ELSE LET module == Head(q)
           ms1 == IF KindOf[module] \in {"StaticFeatures", "Actor"}
                  THEN [ms EXCEPT ![module]._features = None]
                  ELSE IF module # root /\ KindOf[module] = "Policy"
                       THEN NewExampleFrom(module, ms, Modules(module))
                       ELSE ms
       IN NewExampleFrom(root, ms1, Tail(q))

NewExample(root, ms) == NewExampleFrom(root, ms, Modules(root))

\* What a forward call gives back: the module states and the number of
\* tensors allocated afterwards, "ok" with the returned tensor or
\* "AssertionError", the modules whose abstract _forward ran, and what the
\* forward calls made on the way returned, as pairs <<module, tensor>>.
FwdResult(ms, h, result, ret, invoked, inner) ==
  [mods |-> ms, heap |-> h, result |-> result, ret |-> ret, invoked |-> invoked,
   inner |-> inner]

\* StaticFeatures.forward that calls _forward on every call
StaticForwardAlways(ms, h, n) ==
  FwdResult([ms EXCEPT ![n]._features = Some(h + 1)], h + 1, "ok", Some(h + 1), {n},
            {<<n, h + 1>>})

\* StaticFeatures.forward(env); _forward returns a new tensor, h + 1
StaticForward(ms, h, n) ==
  IF ms[n]._features = None
  THEN FwdResult([ms EXCEPT ![n]._features = Some(h + 1)], h + 1, "ok", Some(h + 1), {n},
                 {<<n, h + 1>>})
  ELSE FwdResult(ms, h, "ok", ms[n]._features, {}, {<<n, ms[n]._features[1]>>})

\* Attention.forward(state): reads its `features`, here its only child
AttentionForward(ms, h, att) == StaticForward(ms, h, ChildrenOf[att][1])

\* `for att in self.attention: x += att(env)`, from the k-th attention on
RECURSIVE AttentionsForward(_, _, _, _, _, _)
AttentionsForward(ms, h, atts, k, invoked, inner) ==
  IF k > Len(atts) THEN FwdResult(ms, h, "ok", None, invoked, inner)
  ELSE LET r == AttentionForward(ms, h, atts[k])
       IN AttentionsForward(r.mods, r.heap, atts, k + 1, invoked \cup r.invoked,
                            inner \cup r.inner)

\* Actor.reset(env)
ActorReset(e) ==
  [_features |-> Some([i \in 1..e.T |-> None]), t |-> None, T |-> Some(e.T),
   n_actions |-> Some(e.n_actions)]

\* Actor.forward that leaves t at the trajectory length after computing
ActorForwardNoAdvance(ms, h, n, e) ==
  LET a1 == IF ms[n]._features = None THEN ActorReset(e) ELSE ms[n]
      t == Len(e._trajectory)
      a2 == [a1 EXCEPT !.t = Some(t)]
      feats == a2._features[1]
      ms2 == [ms EXCEPT ![n] = a2]
  IN IF ~(t >= 0 /\ t < a2.T[1] /\ t < Len(feats))
     THEN FwdResult(ms2, h, "AssertionError", None, {}, {})
     ELSE IF feats[t + 1] # None
     THEN FwdResult(ms2, h, "ok", feats[t + 1], {}, {<<n, feats[t + 1][1]>>})
     ELSE IF ~(t = 0 \/ feats[t] # None)
     THEN FwdResult(ms2, h, "AssertionError", None, {}, {})
     ELSE LET r == AttentionsForward(ms2, h, ChildrenOf[n], 1, {}, {})
              x == r.heap + 1
              a3 == [a2 EXCEPT !._features = Some([feats EXCEPT ![t + 1] = Some(x)])]
          IN FwdResult([r.mods EXCEPT ![n] = a3], x, "ok", Some(x), r.invoked \cup {n},
                       r.inner \cup {<<n, x>>})

\* Actor.forward without the assertion on the previous timestep
ActorForwardUnordered(ms, h, n, e) ==
  LET a1 == IF ms[n]._features = None THEN ActorReset(e) ELSE ms[n]
      t == Len(e._trajectory)
      a2 == [a1 EXCEPT !.t = Some(t)]
      feats == a2._features[1]
      ms2 == [ms EXCEPT ![n] = a2]
  IN IF ~(t >= 0 /\ t < a2.T[1] /\ t < Len(feats))
     THEN FwdResult(ms2, h, "AssertionError", None, {}, {})
     ELSE IF feats[t + 1] # None
     THEN FwdResult(ms2, h, "ok", feats[t + 1], {}, {<<n, feats[t + 1][1]>>})
     ELSE LET r == AttentionsForward(ms2, h, ChildrenOf[n], 1, {}, {})
              x == r.heap + 1
              a3 == [a2 EXCEPT !._features = Some([feats EXCEPT ![t + 1] = Some(x)]),
                               !.t = Some(t + 1)]
          IN FwdResult([r.mods EXCEPT ![n] = a3], x, "ok", Some(x), r.invoked \cup {n},
                       r.inner \cup {<<n, x>>})

\* Actor.forward(env): Python's _features[t] is feats[t + 1] here
ActorForward(ms, h, n, e) ==
  LET a1 == IF ms[n]._features = None THEN ActorReset(e) ELSE ms[n]
      t == Len(e._trajectory)
      a2 == [a1 EXCEPT !.t = Some(t)]
      feats == a2._features[1]
      ms2 == [ms EXCEPT ![n] = a2]
  IN IF ~(t >= 0 /\ t < a2.T[1] /\ t < Len(feats))
     THEN FwdResult(ms2, h, "AssertionError", None, {}, {})
     ELSE IF feats[t + 1] # None
     THEN FwdResult(ms2, h, "ok", feats[t + 1], {}, {<<n, feats[t + 1][1]>>})
     ELSE IF ~(t = 0 \/ feats[t] # None)
     THEN FwdResult(ms2, h, "AssertionError", None, {}, {})
     ELSE LET r == AttentionsForward(ms2, h, ChildrenOf[n], 1, {}, {})
              x == r.heap + 1
              a3 == [a2 EXCEPT !._features = Some([feats EXCEPT ![t + 1] = Some(x)]),
                               !.t = Some(t + 1)]
          IN FwdResult([r.mods EXCEPT ![n] = a3], x, "ok", Some(x), r.invoked \cup {n},
                       r.inner \cup {<<n, x>>})

\* Env.__init__, with the horizon T that horizon() reports; pc is
\* run_episode's position and policy the policy it was called with
EnvNew == [_trajectory |-> <<>>, n_actions |-> MaxEnvA, T |-> MaxEnvT,
           pc |-> "idle", policy |-> None]

\* the feature caches at or below `root` in the module tree
RECURSIVE IsUnder(_, _)
IsUnder(n, root) ==
  n = root \/ \E i \in 1..Len(ChildrenOf[root]) : IsUnder(n, ChildrenOf[root][i])

CachesUnder(root) == {n \in Caches : IsUnder(n, root)}

\* the timesteps whose feature an Actor holds
Populated(a) ==
  IF a._features = None THEN {}
  ELSE {i \in 1..Len(a._features[1]) : a._features[1][i] # None}

\* the variables the feature caches' operations leave alone
FeatFrame == UNCHANGED <<loss, tiedrnd, osd, linpol, bandit, baseline, runner, lols>>

FeatRestIdle ==
  loss = Idle /\ tiedrnd = Idle /\ osd = Idle /\ linpol = Idle /\ bandit = Idle
  /\ baseline = Idle /\ runner = Idle /\ lols = Idle

\* obs.fwd[n]: the calls of n's abstract _forward, obs.rets[n]: the tensors
\* n's forward returned, obs.again: the modules whose forward returned more
\* than once, obs.computed[n]: the timesteps n computed a feature for --
\* each since the last new_example() that covered n.  obs.cleared: the
\* caches the last run_episode emptied.  obs.newex and obs.queries: the
\* new_example() calls run_episode made and the policy queries of the
\* episode under way.  obs.last: the last operation.
FeatObsNew ==
  [fwd |-> [n \in Caches |-> 0], rets |-> [n \in Caches |-> {}], again |-> {},
   computed |-> [n \in Caches |-> {}], cleared |-> {}, newex |-> 0, queries |-> 0,
   last |-> [op |-> "new", node |-> 0, result |-> "ok", invoked |-> {}]]

FeatInit ==
  /\ mods = [n \in Nodes |-> ModuleNew(n)]
  /\ env = EnvNew
  /\ heap = 0
  /\ obs = FeatObsNew
  /\ FeatRestIdle

\* the observer's record of a forward call on node n with result r
FeatObserve(n, r, t) ==
  [obs EXCEPT !.fwd = [m \in Caches |-> IF m \in r.invoked THEN @[m] + 1 ELSE @[m]],
              !.rets = [m \in Caches |-> @[m] \cup {p[2] : p \in {q \in r.inner : q[1] = m}}],
              !.again = @ \cup {m \in Caches : obs.rets[m] # {} /\ \E q \in r.inner : q[1] = m},
              !.computed[n] = IF n \in r.invoked THEN @ \cup {t} ELSE @,
              !.last = [op |-> KindOf[n], node |-> n, result |-> r.result,
                        invoked |-> r.invoked]]

\* Env.run_episode(policy), line 29: policy.new_example(); line 30 then
\* enters _run_episode, which starts from an empty trajectory
RunEpisode(policy) ==
  /\ env.pc = "idle"
  /\ mods' = NewExample(policy, mods)
  /\ env' = [env EXCEPT !.pc = "running", !.policy = Some(policy), !._trajectory = <<>>]
  /\ obs' = [obs EXCEPT
       !.fwd = [m \in Caches |-> IF m \in CachesUnder(policy) THEN 0 ELSE @[m]],
       !.rets = [m \in Caches |-> IF m \in CachesUnder(policy) THEN {} ELSE @[m]],
       !.computed = [m \in Caches |-> IF m \in CachesUnder(policy) THEN {} ELSE @[m]],
       !.again = @ \ CachesUnder(policy),
       !.cleared = {m \in Caches : mods[m]._features # None /\ mods'[m]._features = None},
       !.newex = 1, !.queries = 0,
       !.last = [op |-> "run_episode", node |-> policy, result |-> "ok",
                 invoked |-> {}]]
  /\ UNCHANGED heap /\ FeatFrame

\* _run_episode: the policy is asked for an action, which is appended to
\* the trajectory, while the horizon is not reached
PolicyQuery(a) ==
  /\ env.pc = "running"
  /\ Len(env._trajectory) < env.T
  /\ env' = [env EXCEPT !._trajectory = Append(@, a)]
  /\ obs' = [obs EXCEPT !.queries = @ + 1,
               !.last = [op |-> "query", node |-> env.policy[1], result |-> "ok",
                         invoked |-> {}]]
  /\ UNCHANGED <<mods, heap>> /\ FeatFrame

\* _run_episode returns: at the horizon, or at a terminal state before it
EndEpisode ==
  /\ env.pc = "running"
  /\ env' = [env EXCEPT !.pc = "idle"]
  /\ obs' = [obs EXCEPT !.newex = 0, !.queries = 0,
               !.last = [op |-> "end", node |-> 0, result |-> "ok",
                         invoked |-> {}]]
  /\ UNCHANGED <<mods, heap>> /\ FeatFrame

\* Env.rewind(): _rewind() puts the trajectory back to the start
Rewind ==
  /\ env.pc = "idle"
  /\ env._trajectory # <<>>
  /\ env' = [env EXCEPT !._trajectory = <<>>]
  /\ obs' = [obs EXCEPT !.last = [op |-> "rewind", node |-> 0, result |-> "ok",
                                  invoked |-> {}]]
  /\ UNCHANGED <<mods, heap>> /\ FeatFrame

\* a call of StaticFeatures.forward(env) on node n
StaticForwardCall(n) ==
  LET r == StaticForward(mods, heap, n) IN
  /\ r.heap <= MaxObj
  /\ mods' = r.mods /\ heap' = r.heap
  /\ obs' = FeatObserve(n, r, 0)
  /\ UNCHANGED env /\ FeatFrame

\* a call of Actor.forward(env) on node n
ActorForwardCall(n) ==
  LET r == ActorForward(mods, heap, n, env) IN
  /\ r.heap <= MaxObj
  /\ mods' = r.mods /\ heap' = r.heap
  /\ obs' = FeatObserve(n, r, Len(env._trajectory))
  /\ UNCHANGED env /\ FeatFrame

FeatNext ==
  \/ \E policy \in Policies : RunEpisode(policy)
  \/ \E a \in EnvActions : PolicyQuery(a)
  \/ EndEpisode
  \/ Rewind
  \/ \E n \in Statics : StaticForwardCall(n)
  \/ \E n \in Actors : ActorForwardCall(n)

SpecFeat == FeatInit /\ [][FeatNext]_vars

\* C1: between two new_example() calls, a StaticFeatures runs its abstract
\* _forward at most once, on the first forward, and every forward returns
\* the one tensor the first returned.
C1_StaticComputedOnce ==
  \A n \in Statics :
    /\ obs.fwd[n] <= 1
    /\ Cardinality(obs.rets[n]) <= 1
    /\ obs.rets[n] # {} => obs.fwd[n] = 1

\* a second forward on a StaticFeatures that returned the cached tensor,
\* after other tensors were made
C1_Witness ==
  \E n \in Statics :
    /\ obs.last.op = "StaticFeatures" /\ obs.last.node = n
    /\ n \in obs.again /\ obs.last.invoked = {}
    /\ obs.rets[n] = {mods[n]._features[1]} /\ heap > mods[n]._features[1]

\* C2: an Actor.forward at trajectory length t fails with an AssertionError,
\* running no _forward and filling no cache entry, when t > 0 and the feature
\* of t - 1 was not computed in this episode, and when t is not below the
\* captured horizon T.
C2_ActorOutOfOrderFails ==
  [][\A n \in Actors :
       (obs'.last.op = "Actor" /\ obs'.last.node = n) =>
         LET t == Len(env._trajectory)
             skipped == t > 0 /\ (t - 1) \notin obs.computed[n]
             beyond == t >= mods'[n].T[1]
         IN (skipped \/ beyond) =>
              /\ obs'.last.result = "AssertionError"
              /\ obs'.fwd = obs.fwd /\ heap' = heap
              /\ Populated(mods'[n]) = Populated(mods[n])
              /\ \A m \in Statics : mods'[m] = mods[m]]_vars

\* an Actor.forward that failed below the horizon because the step before
\* was skipped
C2_Witness ==
  \E n \in Actors :
    /\ obs.last.op = "Actor" /\ obs.last.node = n
    /\ obs.last.result = "AssertionError"
    /\ Len(env._trajectory) > 0 /\ Len(env._trajectory) < mods[n].T[1]
    /\ (Len(env._trajectory) - 1) \notin obs.computed[n]

\* C3: run_episode(policy) calls policy.new_example() once, before the first
\* query of the policy; on its return every StaticFeatures and Actor at or
\* below the policy holds no features, and the next forward of each that
\* returns runs _forward again.
C3_RunEpisodeInvalidates ==
  /\ [][(env.pc = "idle" /\ env'.pc = "running") =>
          /\ \A n \in CachesUnder(env'.policy[1]) : mods'[n]._features = None
          /\ obs'.newex = 1 /\ obs'.queries = 0]_vars
  /\ [](obs.queries > 0 => obs.newex = 1)
  /\ [][\A n \in Caches :
          (obs'.last.op = KindOf[n] /\ obs'.last.node = n
             /\ mods[n]._features = None /\ obs'.last.result = "ok") =>
            n \in obs'.last.invoked]_vars

\* in an episode of the outer policy, the StaticFeatures under the nested
\* policy's Actor, filled before and emptied by run_episode, computed again
C3_Witness ==
  /\ env.pc = "running" /\ env.policy = Some(1)
  /\ obs.last.op = "StaticFeatures" /\ obs.last.node = 6
  /\ 6 \in obs.last.invoked /\ 6 \in obs.cleared /\ 4 \in obs.cleared

(***************************************************************************)
(* BanditLOLS (lts/lols.py 10-114)                                         *)
(*                                                                         *)
(* Costs, losses and baseline values are counted in units of 1/Den;        *)
(* importance weights are plain numbers.                                   *)
(***************************************************************************)
MIX_PER_STATE == 0
MIX_PER_ROLL == 1
LEARN_BIASED == 0
LEARN_IPS == 1
LEARN_DR == 2
EXPLORE_UNIFORM == 0
EXPLORE_BOLTZMANN == 1
EXPLORE_BOLTZMANN_BIASED == 2

\* the surrogate cost 1e10 of explore(): any cost so far above the others
\* that exp() of the shifted negative cost is 0
BigCost == 1000000

Den == 2
RandDen == 2
MaxBcvA == 3
MaxBcvW == 4
MaxBcvLoss == 3
MaxBcvCost == 1
MaxBanditA == 2
MaxBanditT == 2
MaxBanditCost == 0
MaxBanditW == 2
MaxBanditLoss == 1
MaxBaseline == 1

BanditActions == 0..(MaxBanditA - 1)
\* what policy.predict_costs(state) may return
BanditCostVecs == [BanditActions -> 0..MaxBanditCost]
\* what state.actions may be
BanditLegalSets == (SUBSET BanditActions) \ {{}}

\* len(costs) of the (1, n_actions) tensor predict_costs returns, which
\* explore() indexes as my_costs[0, i]: the size of its first dimension
LenCosts == 1

MinOf(f) == CHOOSE x \in {f[i] : i \in DOMAIN f} : \A i \in DOMAIN f : x <= f[i]

\* BanditLOLS.__init__: p_rollin_ref() and p_rollout_ref() are called here
\* under MIX_PER_ROLL (use_in_ref, use_out_ref) and on each step otherwise
\* (None then); n_actions is policy.n_actions
BanditNew(learning_method, exploration, epsilon, mixture, use_in_ref, use_out_ref, n_actions) ==
  [learning_method |-> learning_method, exploration |-> exploration,
   epsilon |-> epsilon, mixture |-> mixture,
   use_in_ref |-> use_in_ref, use_out_ref |-> use_out_ref,
   n_actions |-> n_actions,
   t |-> None, dev_t |-> None, dev_a |-> None, dev_actions |-> None,
   dev_imp_weight |-> None, dev_costs |-> None]

\* BanditLOLS.explore(costs) with self.dev_actions = acts: the outcomes
\* [a, w, costs], costs being what self.dev_costs holds afterwards (my_costs
\* aliases costs.data until it is negated).  The softmax puts weight on
\* every action whose shifted cost does not underflow; the weight 1/p is 1
\* for a sole such action and some number above 1 otherwise (BIASED caps
\* it at 1e4, beyond MaxBanditW).
Explore(exploration, costs, acts) ==
  IF exploration = EXPLORE_UNIFORM
  THEN {[a |-> a, w |-> Cardinality(acts), costs |-> costs] : a \in acts}
  ELSE LET masked == IF Cardinality(acts) # LenCosts
                     THEN [i \in DOMAIN costs |->
                             IF i < LenCosts /\ i \notin acts THEN BigCost ELSE costs[i]]
                     ELSE costs
           support == {i \in DOMAIN costs : masked[i] - MinOf(masked) < BigCost}
           weights == IF Cardinality(support) = 1 THEN {1} ELSE 2..MaxBanditW
       IN {[a |-> a, w |-> w, costs |-> masked] : a \in support, w \in weights}

\* build_cost_vector with `+=` for `=` on the explored action's entry
BuildCostVectorAdd(b, bl, lossval) ==
  LET zeros == [i \in 0..(b.n_actions - 1) |-> 0]
      a == b.dev_a[1]
      w == b.dev_imp_weight[1]
      c1 == [i \in DOMAIN zeros |-> zeros[i] - bl]
  IN IF b.learning_method = LEARN_BIASED
     THEN [c1 EXCEPT ![a] = @ + Den * w - bl]
     ELSE IF b.learning_method = LEARN_IPS
     THEN [c1 EXCEPT ![a] = @ + lossval * w - bl]
     ELSE LET c2 == [i \in DOMAIN zeros |-> zeros[i] + b.dev_costs[1][i]]
          IN [c2 EXCEPT ![a] = @ + w * (lossval - c2[a])]

\* BanditLOLS.build_cost_vector(baseline, loss)
BuildCostVector(b, bl, lossval) ==
  LET zeros == [i \in 0..(b.n_actions - 1) |-> 0]
      a == b.dev_a[1]
      w == b.dev_imp_weight[1]
  IN IF b.learning_method = LEARN_BIASED
     THEN LET c1 == [i \in DOMAIN zeros |-> zeros[i] - bl]
          IN [c1 EXCEPT ![a] = Den * w - bl]
     ELSE IF b.learning_method = LEARN_IPS
     THEN LET c1 == [i \in DOMAIN zeros |-> zeros[i] - bl]
          IN [c1 EXCEPT ![a] = lossval * w - bl]
     ELSE LET c1 == [i \in DOMAIN zeros |-> zeros[i] + b.dev_costs[1][i]]
          IN [c1 EXCEPT ![a] = @ + w * (lossval - c1[a])]

\* BanditLOLS.update with the baseline updated only after an exploration
BanditUpdateGuarded(b, bl, lossval, base) ==
  IF b.dev_a # None
  THEN LET truth == BuildCostVector(b, IF bl = None THEN 0 ELSE base, lossval)
       IN [grads |-> <<[pred |-> b.dev_costs[1], truth |-> truth, actions |-> b.dev_actions[1]]>>,
           baseline |-> IF bl = None THEN bl
                        ELSE Some([updates |-> Append(bl[1].updates, lossval)])]
  ELSE [grads |-> <<>>, baseline |-> bl]

\* BanditLOLS.update(loss): the forward_partial_complete(...).backward()
\* calls it makes and the baseline afterwards; base is what self.baseline()
\* returns when it is asked
BanditUpdate(b, bl, lossval, base) ==
  LET grads == IF b.dev_a # None
               THEN <<[pred |-> b.dev_costs[1],
                       truth |-> BuildCostVector(b, IF bl = None THEN 0 ELSE base, lossval),
                       actions |-> b.dev_actions[1]]>>
               ELSE <<>>
  IN [grads |-> grads,
      baseline |-> IF bl # None
                   THEN Some([updates |-> Append(bl[1].updates, lossval)])
                   ELSE bl]

LearningMethods == {LEARN_BIASED, LEARN_IPS, LEARN_DR}
Explorations == {EXPLORE_UNIFORM, EXPLORE_BOLTZMANN, EXPLORE_BOLTZMANN_BIASED}
BaselineVals == 0..MaxBaseline

\* the variables BanditLOLS's operations leave alone
BanditFrame == UNCHANGED <<loss, tiedrnd, osd, linpol, mods, heap, runner, lols>>

BanditRestIdle ==
  loss = Idle /\ tiedrnd = Idle /\ osd = Idle /\ linpol = Idle /\ mods = Idle
  /\ heap = Idle /\ runner = Idle /\ lols = Idle

(***************************************************************************)
(* build_cost_vector on its own: a learner that has explored, asked for    *)
(* the cost vector of a baseline value and a loss                          *)
(***************************************************************************)
BcvActions == 0..(MaxBcvA - 1)

BcvInit ==
  /\ \E m \in LearningMethods, a \in BcvActions, w \in 1..MaxBcvW,
        costs \in [BcvActions -> 0..MaxBcvCost] :
       bandit = [BanditNew(m, EXPLORE_BOLTZMANN, RandDen, MIX_PER_ROLL, TRUE, TRUE, MaxBcvA)
                   EXCEPT !.t = Some(1), !.dev_t = Some(1), !.dev_a = Some(a),
                          !.dev_actions = Some(BcvActions), !.dev_imp_weight = Some(w),
                          !.dev_costs = Some(costs)]
  /\ obs = [called |-> FALSE, baseline |-> 0, loss |-> 0, out |-> <<>>]
  /\ env = Idle /\ baseline = Idle
  /\ BanditRestIdle

BcvCall(bl, lossval) ==
  /\ obs' = [called |-> TRUE, baseline |-> bl, loss |-> lossval,
             out |-> BuildCostVector(bandit, bl, lossval)]
  /\ UNCHANGED <<bandit, env, baseline>> /\ BanditFrame

BcvNext == \E bl \in BaselineVals, lossval \in 0..MaxBcvLoss : BcvCall(bl, lossval)

SpecBcv == BcvInit /\ [][BcvNext]_vars

\* C7: under LEARN_IPS and LEARN_BIASED build_cost_vector returns n_actions
\* entries, -baseline everywhere but at dev_a, where it is
\* loss * dev_imp_weight - baseline (IPS), dev_imp_weight - baseline (BIASED).
C7_BuildCostVector ==
  (obs.called /\ bandit.learning_method \in {LEARN_IPS, LEARN_BIASED}) =>
    /\ DOMAIN obs.out = 0..(bandit.n_actions - 1)
    /\ \A i \in DOMAIN obs.out : i # bandit.dev_a[1] => obs.out[i] = 0 - obs.baseline
    /\ bandit.learning_method = LEARN_IPS =>
         obs.out[bandit.dev_a[1]] = obs.loss * bandit.dev_imp_weight[1] - obs.baseline
    /\ bandit.learning_method = LEARN_BIASED =>
         obs.out[bandit.dev_a[1]] = Den * bandit.dev_imp_weight[1] - obs.baseline

\* the spec's example, in halves: baseline 0.5, dev_a 2, weight 4, loss 1.5
\* and 3 actions under LEARN_IPS give (-0.5, -0.5, 5.5)
C7_Witness ==
  /\ obs.called /\ bandit.learning_method = LEARN_IPS /\ bandit.n_actions = 3
  /\ obs.baseline = 1 /\ obs.loss = 3
  /\ bandit.dev_a = Some(2) /\ bandit.dev_imp_weight = Some(4)
  /\ obs.out = [i \in 0..2 |-> IF i = 2 THEN 11 ELSE 0 - 1]

(***************************************************************************)
(* One episode under a BanditLOLS learner, then update(loss)               *)
(***************************************************************************)
\* what random.random() may return, in units of 1/RandDen
RandVals == 0..(RandDen - 1)

\* the environment of the episode: its horizon state.T and whether the
\* episode is still under way
BanditEnvNew == [T |-> MaxBanditT, pc |-> "running"]

\* the baseline the learner was given, when it was given one: an object
\* whose update(loss) calls are `updates`
BaselineNew == Some([updates |-> <<>>])

\* the explore arm of __call__, lines 60-62, with costs what
\* policy.predict_costs(state) gives and acts what state.actions holds: the
\* learners it may leave
ExploreArm(b, costs, acts) ==
  {[b EXCEPT !.dev_costs = Some(o.costs), !.dev_actions = Some(acts),
             !.dev_a = Some(o.a), !.dev_imp_weight = Some(o.w)] :
     o \in Explore(b.exploration, costs, acts)}

\* __call__ starting its count of calls at 1 in place of 0
BanditAdvanceFromOne(b, dt) ==
  LET b0 == IF b.t = None THEN [b EXCEPT !.t = Some(1), !.dev_t = Some(dt)] ELSE b
  IN [b0 EXCEPT !.t = Some(b0.t[1] + 1)]

\* BanditLOLS.__call__, lines 51-55: the first call sets t to 0 and draws
\* dev_t (dt is what random.randint(1, state.T) gives); every call adds 1
BanditAdvance(b, dt) ==
  LET b0 == IF b.t = None THEN [b EXCEPT !.t = Some(0), !.dev_t = Some(dt)] ELSE b
  IN [b0 EXCEPT !.t = Some(b0.t[1] + 1)]

\* line 64 with the roll-out sampler before dev_t and the roll-in one after
RollSamplerSwapped(b) == IF b.t[1] < b.dev_t[1] THEN "rollout" ELSE "rollin"

\* line 64: the sampler a step off the deviation step asks
RollSampler(b) == IF b.t[1] < b.dev_t[1] THEN "rollin" ELSE "rollout"

\* what self.rollin_ref() / self.rollout_ref() gives: under MIX_PER_ROLL the
\* value drawn at construction (lines 32-35), otherwise a new draw of
\* p_rollin_ref / p_rollout_ref, coin (lines 37-38)
SamplerValue(b, which, coin) ==
  IF b.mixture = MIX_PER_ROLL
  THEN IF which = "rollin" THEN b.use_in_ref ELSE b.use_out_ref
  ELSE coin

\* obs.grads: the forward_partial_complete(pred, truth, actions).backward()
\* calls made; obs.last: the last operation; obs.lossval: update's argument.
\* obs.calls: the __call__s made, obs.draws: the draws of dev_t,
\* obs.devcalls: the calls that were the deviation step, obs.samples: the
\* evaluations of p_rollin_ref and p_rollout_ref, obs.policy: the times
\* policy(state) was invoked, obs.asked: the sampler the last call asked
BanditInit ==
  /\ \E m \in LearningMethods, x \in Explorations, eps \in {0, RandDen},
        mix \in {MIX_PER_STATE, MIX_PER_ROLL}, uin \in BOOLEAN, uout \in BOOLEAN :
       /\ mix = MIX_PER_STATE => (uin /\ uout)
       /\ bandit = BanditNew(m, x, eps, mix, uin, uout, MaxBanditA)
       /\ obs = [grads |-> <<>>, last |-> "new", lossval |-> None,
                 calls |-> 0, draws |-> 0, devcalls |-> <<>>,
                 samples |-> IF mix = MIX_PER_ROLL THEN [rollin |-> 1, rollout |-> 1]
                             ELSE [rollin |-> 0, rollout |-> 0],
                 policy |-> 0, asked |-> "none"]
  /\ baseline \in {None, BaselineNew}
  /\ env = BanditEnvNew
  /\ BanditRestIdle

\* BanditLOLS.__call__(state): dt is what random.randint(1, state.T) gives
\* on the first call, r what random.random() gives on the deviation step,
\* coin what the roll-in / roll-out sampler gives when it is called on the
\* step, costs what predict_costs(state) gives and acts what state.actions
\* holds when the step explores
BanditCall ==
  /\ env.pc = "running"
  /\ obs.calls < env.T
  /\ \E dt \in (IF bandit.t = None THEN 1..env.T ELSE {bandit.dev_t[1]}) :
       LET b1 == BanditAdvance(bandit, dt)
           o1 == [obs EXCEPT !.calls = @ + 1,
                             !.draws = IF bandit.t = None THEN @ + 1 ELSE @]
       IN IF b1.t = b1.dev_t
          THEN \E r \in RandVals :
                 IF r > b1.epsilon
                 THEN /\ bandit' = b1
                      /\ obs' = [o1 EXCEPT !.last = "exploit", !.asked = "none",
                                           !.devcalls = Append(@, o1.calls),
                                           !.policy = @ + 1]
                 ELSE \E costs \in BanditCostVecs, acts \in BanditLegalSets :
                        \E b2 \in ExploreArm(b1, costs, acts) :
                          /\ bandit' = b2
                          /\ obs' = [o1 EXCEPT !.last = "explore", !.asked = "none",
                                               !.devcalls = Append(@, o1.calls)]
          ELSE \E coin \in (IF b1.mixture = MIX_PER_ROLL THEN {TRUE} ELSE BOOLEAN) :
                 LET which == RollSampler(b1)
                     use_ref == SamplerValue(b1, which, coin)
                 IN /\ bandit' = b1
                    /\ obs' = [o1 EXCEPT
                         !.last = IF use_ref THEN "reference" ELSE "policy",
                         !.asked = which,
                         !.samples[which] = IF b1.mixture = MIX_PER_ROLL THEN @ ELSE @ + 1,
                         !.policy = @ + 1]
  /\ UNCHANGED <<env, baseline>> /\ BanditFrame

\* the episode ends: at the horizon, or at a terminal state before it
BanditEndEpisode ==
  /\ env.pc = "running"
  /\ env' = [env EXCEPT !.pc = "done"]
  /\ obs' = [obs EXCEPT !.last = "end"]
  /\ UNCHANGED <<bandit, baseline>> /\ BanditFrame

\* BanditLOLS.update(loss), called once the episode's loss is known
BanditUpdateCall(lossval) ==
  /\ env.pc = "done"
  /\ obs.lossval = None
  /\ \E base \in (IF bandit.dev_a # None /\ baseline # None THEN BaselineVals ELSE {0}) :
       LET res == BanditUpdate(bandit, baseline, lossval, base) IN
       /\ baseline' = res.baseline
       /\ obs' = [obs EXCEPT !.grads = @ \o res.grads, !.last = "update",
                              !.lossval = Some(lossval)]
  /\ UNCHANGED <<bandit, env>> /\ BanditFrame

BanditNext ==
  \/ BanditCall
  \/ BanditEndEpisode
  \/ \E lossval \in 0..MaxBanditLoss : BanditUpdateCall(lossval)

SpecBandit == BanditInit /\ [][BanditNext]_vars

\* C8 (as claimed): update(loss) after an episode without exploration makes
\* no forward_partial_complete/backward call and changes neither the learner
\* nor the baseline; after an exploration it makes one such call and updates
\* the baseline, if there is one, with the loss.
C8_UpdateAsClaimed ==
  [][obs'.last = "update" =>
       IF bandit.dev_a = None
       THEN obs'.grads = obs.grads /\ bandit' = bandit /\ baseline' = baseline
       ELSE /\ Len(obs'.grads) = Len(obs.grads) + 1
            /\ baseline # None =>
                 baseline'[1].updates = Append(baseline[1].updates, obs'.lossval[1])]_vars

\* C8 (amended): update(loss) after an episode without exploration makes no
\* forward_partial_complete/backward call and leaves the learner unchanged;
\* after an exploration it makes one such call, with the cost vector built
\* from the loss and the baseline's value (0 without a baseline).  In both
\* cases the baseline, if there is one, is updated with the loss.
C8_UpdateBaselineAlways ==
  [][obs'.last = "update" =>
       /\ bandit' = bandit
       /\ IF bandit.dev_a = None
          THEN obs'.grads = obs.grads
          ELSE /\ Len(obs'.grads) = Len(obs.grads) + 1
               /\ \E base \in (IF baseline = None THEN {0} ELSE BaselineVals) :
                    obs'.grads[Len(obs'.grads)].truth =
                      BuildCostVector(bandit, base, obs'.lossval[1])
       /\ IF baseline = None THEN baseline' = None
          ELSE baseline'[1].updates = Append(baseline[1].updates, obs'.lossval[1])]_vars

\* an update after an episode whose deviation step exploited: no gradient
\* call, and the baseline has seen the loss
C8_Witness ==
  /\ obs.last = "update" /\ bandit.dev_a = None
  /\ bandit.t # None /\ bandit.t[1] >= bandit.dev_t[1]
  /\ obs.grads = <<>>
  /\ baseline # None /\ baseline[1].updates = <<obs.lossval[1]>>

(***************************************************************************)
(* EpisodeRunner and lols() (lts/lols.py 116-154, 175-221)                 *)
(***************************************************************************)
MaxLolsT == 3
MaxLolsA == 3
MaxLolsLoss == 1

LolsActions == 0..(MaxLolsA - 1)
LolsSteps == 0..(MaxLolsT - 1)

\* the policy lols() trains: node 3 of the module tree, whose features are
\* its only child, the Actor (4)
LolsPolicy == 3
PolicyFeatures(p) == ChildrenOf[p][1]

\* the task at hand: the environment ex.mk_env() gives, in which an episode
\* runs to the horizon and the actions legal at a state are those numbered
\* up to the length of the trajectory
LolsEnvNew == [_trajectory |-> <<>>, n_actions |-> MaxLolsA, T |-> MaxLolsT]
StateActions(e) == {a \in 0..(e.n_actions - 1) : a <= Len(e._trajectory)}

\* the elements of a set of numbers in increasing order
RECURSIVE SetToSeq(_)
SetToSeq(S) ==
  IF S = {} THEN <<>>
  ELSE LET m == CHOOSE x \in S : \A y \in S : x <= y IN <<m>> \o SetToSeq(S \ {m})

\* EpisodeRunner.__init__(policy, run_strategy, reference); run_strategy is
\* the function from timesteps to what the strategy yields there
EpisodeRunnerNew(policy, run_strategy) ==
  [policy |-> policy, run_strategy |-> run_strategy, t |-> 0,
   trajectory |-> <<>>, limited_actions |-> <<>>, costs |-> <<>>, ref_costs |-> <<>>]

\* nn.Module.modules() of an EpisodeRunner: the runner (0, not a node of the
\* tree of feature modules) and, through its policy attribute, the policy
\* and everything below it.  The attribute is taken to be registered as a
\* submodule, as assigning a module to an attribute of an nn.Module does;
\* EpisodeRunner.__init__ does not call nn.Module.__init__ itself.
RunnerModules(r) == Modules(r.policy)

\* RunnerNewExample that clears nothing
RunnerNewExampleKeep(r, ms) == ms

\* EpisodeRunner.new_example(), inherited from Policy: the runner itself is
\* skipped, its policy and the modules below are visited
RunnerNewExample(r, ms) == NewExampleFrom(0, ms, RunnerModules(r))

\* policy(state) and policy.predict_costs(state) both start with
\* self.features(state)
PolicyFeaturesForward(ms, h, p, e) == ActorForward(ms, h, PolicyFeatures(p), e)

\* the variables lols() leaves alone
LolsFrame == UNCHANGED <<loss, tiedrnd, osd, linpol, bandit, baseline>>

LolsRestIdle ==
  loss = Idle /\ tiedrnd = Idle /\ osd = Idle /\ linpol = Idle /\ bandit = Idle
  /\ baseline = Idle

\* rollin_f, rollout_f under MIX_PER_ROLL and traj_rollin, as functions of
\* the timestep
ConstStrategy(tag) == [t \in LolsSteps |-> <<tag>>]
TrajRollin(traj0) == [t \in 0..(Len(traj0) - 1) |-> StratAct(traj0[t + 1])]

\* the strategy one_step_deviation(rollin, rollout, dev_t, dev_a) returns
DeviationStrategy(rollin, rollout, dev_t, dev_a) ==
  [t \in LolsSteps |-> OneStepDeviation(rollin, rollout, dev_t, dev_a, t).out]

\* lols() up to its first run(): env = ex.mk_env(), and rollin, rollout
\* from p_rollin_ref(), p_rollout_ref().  pc is the position in lols();
\* t, todo and costs belong to the loop over the backbone's timesteps (todo:
\* the actions of limit0[t] still to try); objective holds the
\* forward_partial_complete terms and backward their backward() calls.
LolsNew(rollin, rollout) ==
  [pc |-> "run", phase |-> "backbone", rollin |-> rollin, rollout |-> rollout,
   loss0 |-> None, traj0 |-> None, limit0 |-> None, costs0 |-> None,
   t |-> 0, todo |-> <<>>, costs |-> [a \in LolsActions |-> 0],
   objective |-> <<>>, backward |-> 0]

\* obs.fwd[n]: the calls of n's abstract _forward since lols() was entered,
\* obs.dropped[n]: the times a feature n held was discarded since then,
\* obs.episodes: the episodes run, obs.last: the last step, obs.pol and
\* obs.ref: what the policy and the reference answered in the last call,
\* obs.losses: per finished timestep, costs as filled by `costs[a] = l`
\* before the shift.  obs.src[n][i]: the trajectory the feature Actor n
\* holds for timestep i - 1 was computed at, obs.runs[n][i]: the calls of
\* n's _forward for timestep i - 1 in the episode under way.  Of the last
\* EpisodeRunner call that got to its second policy.features(state):
\* obs.mid the modules after the first, obs.ret1 and obs.ret2 what the two
\* returned, obs.second the modules whose _forward ran in the second.
LolsObsNew ==
  [fwd |-> [n \in Caches |-> 0], dropped |-> [n \in Caches |-> 0],
   episodes |-> 0, last |-> "new", pol |-> 0, ref |-> 0, losses |-> <<>>,
   src |-> [n \in Actors |-> [i \in 1..MaxLolsT |-> None]],
   runs |-> [n \in Actors |-> [i \in 1..MaxLolsT |-> 0]],
   mid |-> None, ret1 |-> None, ret2 |-> None, second |-> {}]

LolsInit ==
  /\ \E rollin \in {REF, LEARN}, rollout \in {REF, LEARN} : lols = LolsNew(rollin, rollout)
  /\ env = LolsEnvNew
  /\ mods = [n \in Nodes |-> ModuleNew(n)]
  /\ heap = 0
  /\ runner = [t |-> None]
  /\ obs = LolsObsNew
  /\ LolsRestIdle

\* the strategy the next run() is called with
NextStrategy(l) ==
  IF l.phase = "backbone" THEN ConstStrategy(l.rollin)
  ELSE DeviationStrategy(TrajRollin(l.traj0[1]), ConstStrategy(l.rollout), l.t, Head(l.todo))

\* run(run_strategy), lines 181-183 up to the first query of the episode:
\* env.rewind(), the new EpisodeRunner, and run_episode's
\* policy.new_example() on that runner
LolsRun ==
  /\ lols.pc = "run"
  /\ LET r == EpisodeRunnerNew(LolsPolicy, NextStrategy(lols))
         ms == RunnerNewExample(r, mods)
     IN /\ runner' = r
        /\ mods' = ms
        /\ obs' = [obs EXCEPT
             !.dropped = [n \in Caches |->
                            IF mods[n]._features # None /\ ms[n]._features = None
                            THEN @[n] + 1 ELSE @[n]],
             !.src = [n \in Actors |->
                        IF ms[n]._features = None
                        THEN [i \in 1..MaxLolsT |-> None] ELSE @[n]],
             !.runs = [n \in Actors |-> [i \in 1..MaxLolsT |-> 0]],
             !.mid = None, !.ret1 = None, !.ret2 = None, !.second = {},
             !.episodes = @ + 1, !.last = "run"]
  /\ env' = [env EXCEPT !._trajectory = <<>>]
  /\ lols' = [lols EXCEPT !.pc = "episode"]
  /\ UNCHANGED heap /\ LolsFrame

\* EpisodeRunner.__call__ with the legality assertion after the action and
\* its legal set are recorded
EpisodeRunnerCallLateAssert(r, ms, h, e, pol, ref) ==
  LET a_type == r.run_strategy[r.t]
      f1 == PolicyFeaturesForward(ms, h, r.policy, e)
      ref_costs_t == f1.heap + 1
      r1 == [r EXCEPT !.ref_costs = Append(@, ref_costs_t)]
      a == IF a_type = <<REF>> THEN ref
           ELSE IF a_type = <<LEARN>> THEN pol
           ELSE a_type[2]
      f2 == PolicyFeaturesForward(f1.mods, ref_costs_t, r.policy, e)
      cost == f2.heap + 1
  IN IF f1.result # "ok"
     THEN [runner |-> r, mods |-> f1.mods, heap |-> f1.heap, result |-> f1.result,
           a |-> None, invoked |-> f1.invoked]
     ELSE IF ~(a_type \in {<<REF>>, <<LEARN>>} \/ (Len(a_type) = 2 /\ a_type[1] = ACT))
     THEN [runner |-> r1, mods |-> f1.mods, heap |-> ref_costs_t, result |-> "ValueError",
           a |-> None, invoked |-> f1.invoked]
     ELSE IF a \notin StateActions(e)
     THEN [runner |-> [r1 EXCEPT !.limited_actions = Append(@, StateActions(e)),
                                 !.trajectory = Append(@, a)],
           mods |-> f1.mods, heap |-> ref_costs_t,
           result |-> "AssertionError", a |-> None, invoked |-> f1.invoked]
     ELSE IF f2.result # "ok"
     THEN [runner |-> [r1 EXCEPT !.limited_actions = Append(@, StateActions(e)),
                                 !.trajectory = Append(@, a)],
           mods |-> f2.mods, heap |-> f2.heap, result |-> f2.result, a |-> None,
           invoked |-> f1.invoked \cup f2.invoked]
     ELSE [runner |-> [r1 EXCEPT !.limited_actions = Append(@, StateActions(e)),
                                 !.trajectory = Append(@, a),
                                 !.costs = Append(@, cost),
                                 !.t = @ + 1],
           mods |-> f2.mods, heap |-> cost, result |-> "ok", a |-> Some(a),
           invoked |-> f1.invoked \cup f2.invoked]

\* EpisodeRunner.__call__(state): pol is what policy(state) answers and ref
\* what reference(state) answers.  Gives the runner, the modules and the
\* number of tensors afterwards, "ok" with the action or the exception
\* raised, and the modules whose abstract _forward ran.
EpisodeRunnerCall(r, ms, h, e, pol, ref) ==
  LET a_type == r.run_strategy[r.t]
      f1 == PolicyFeaturesForward(ms, h, r.policy, e)
      ref_costs_t == f1.heap + 1
      r1 == [r EXCEPT !.ref_costs = Append(@, ref_costs_t)]
      a == IF a_type = <<REF>> THEN ref
           ELSE IF a_type = <<LEARN>> THEN pol
           ELSE a_type[2]
      f2 == PolicyFeaturesForward(f1.mods, ref_costs_t, r.policy, e)
      cost == f2.heap + 1
  IN IF f1.result # "ok"
     THEN [runner |-> r, mods |-> f1.mods, heap |-> f1.heap, result |-> f1.result,
           a |-> None, invoked |-> f1.invoked]
     ELSE IF ~(a_type \in {<<REF>>, <<LEARN>>} \/ (Len(a_type) = 2 /\ a_type[1] = ACT))
     THEN [runner |-> r1, mods |-> f1.mods, heap |-> ref_costs_t, result |-> "ValueError",
           a |-> None, invoked |-> f1.invoked]
     ELSE IF a \notin StateActions(e)
     THEN [runner |-> r1, mods |-> f1.mods, heap |-> ref_costs_t,
           result |-> "AssertionError", a |-> None, invoked |-> f1.invoked]
     ELSE IF f2.result # "ok"
     THEN [runner |-> [r1 EXCEPT !.limited_actions = Append(@, StateActions(e)),
                                 !.trajectory = Append(@, a)],
           mods |-> f2.mods, heap |-> f2.heap, result |-> f2.result, a |-> None,
           invoked |-> f1.invoked \cup f2.invoked]
     ELSE [runner |-> [r1 EXCEPT !.limited_actions = Append(@, StateActions(e)),
                                 !.trajectory = Append(@, a),
                                 !.costs = Append(@, cost),
                                 !.t = @ + 1],
           mods |-> f2.mods, heap |-> cost, result |-> "ok", a |-> Some(a),
           invoked |-> f1.invoked \cup f2.invoked]

\* the second policy.features(state) of EpisodeRunner.__call__ (within
\* predict_costs, line 150) after the first, f1 (within policy(state), line
\* 132): the modules in between, what each returned and the modules whose
\* _forward ran in each
SecondForward(f1, p, e) ==
  LET f2 == PolicyFeaturesForward(f1.mods, f1.heap + 1, p, e)
  IN [mid |-> f1.mods, ret1 |-> f1.ret, first |-> f1.invoked,
      ret2 |-> f2.ret, second |-> f2.invoked]

RunnerForwards(r, ms, h, e) ==
  SecondForward(PolicyFeaturesForward(ms, h, r.policy, e), r.policy, e)

\* the observer's record of the two forwards w of a call; both: the call got
\* to the second
LolsObserveForwards(w, both) ==
  LET i == Len(env._trajectory) + 1
      ran2 == IF both THEN w.second ELSE {}
  IN [obs EXCEPT
       !.src = [n \in Actors |->
                  IF n \in w.first \cup ran2
                  THEN [@[n] EXCEPT ![i] = Some(env._trajectory)]
                  ELSE @[n]],
       !.runs = [n \in Actors |->
                   [@[n] EXCEPT ![i] = @ + (IF n \in w.first THEN 1 ELSE 0)
                                         + (IF n \in ran2 THEN 1 ELSE 0)]],
       !.mid = IF both THEN Some(w.mid) ELSE None,
       !.ret1 = IF both THEN w.ret1 ELSE None,
       !.ret2 = IF both THEN w.ret2 ELSE None,
       !.second = ran2]

\* one step of _run_episode(runner): the runner is asked for an action and
\* the environment takes it; an exception ends lols().  The policy, asked
\* without limit_actions, may answer any action; the reference answers one
\* of state.actions.
LolsRunnerCall ==
  /\ lols.pc = "episode"
  /\ Len(env._trajectory) < env.T
  /\ LET a_type == runner.run_strategy[runner.t] IN
     \E pol \in (IF a_type = <<LEARN>> THEN LolsActions ELSE {0}),
        ref \in (IF a_type = <<REF>> THEN StateActions(env) ELSE {0}) :
       LET c == EpisodeRunnerCall(runner, mods, heap, env, pol, ref) IN
       /\ runner' = c.runner /\ mods' = c.mods /\ heap' = c.heap
       /\ obs' = [LolsObserveForwards(RunnerForwards(runner, mods, heap, env),
                                      c.result = "ok") EXCEPT
            !.fwd = [n \in Caches |-> IF n \in c.invoked THEN @[n] + 1 ELSE @[n]],
            !.pol = pol, !.ref = ref,
            !.last = IF c.result = "ok" THEN "call" ELSE c.result]
       /\ IF c.result = "ok"
          THEN env' = [env EXCEPT !._trajectory = Append(@, c.a[1])] /\ UNCHANGED lols
          ELSE lols' = [lols EXCEPT !.pc = "failed"] /\ UNCHANGED env
  /\ LolsFrame

\* the episode is over: run() takes the loss and returns, and lols() goes on
\* from where it called run() -- after the backbone into the loop over its
\* timesteps, after a deviation to the next action of limit0[t] or, when
\* there is none, to the end of the loop body and the next timestep
LolsEpisodeEnd(l) ==
  /\ lols.pc = "episode"
  /\ Len(env._trajectory) = env.T
  /\ IF lols.phase = "backbone"
     THEN LET n == Len(runner.costs) IN
          lols' = [lols EXCEPT
            !.loss0 = Some(l), !.traj0 = Some(runner.trajectory),
            !.limit0 = Some(runner.limited_actions), !.costs0 = Some(runner.costs),
            !.phase = "deviations", !.t = 0,
            !.todo = IF n = 0 THEN <<>> ELSE SetToSeq(runner.limited_actions[1]),
            !.pc = IF n = 0 THEN "backward" ELSE "run"]
     ELSE LET costs1 == [lols.costs EXCEPT ![Head(lols.todo)] = l]
              rest == Tail(lols.todo)
              shifted == [a \in LolsActions |-> costs1[a] - MinOf(costs1)]
              term == [pred |-> lols.costs0[1][lols.t + 1], truth |-> shifted,
                       actions |-> lols.limit0[1][lols.t + 1]]
              last == lols.t + 1 = Len(lols.costs0[1])
          IN IF rest # <<>>
             THEN lols' = [lols EXCEPT !.costs = costs1, !.todo = rest, !.pc = "run"]
             ELSE lols' = [lols EXCEPT
                    !.objective = Append(@, term),
                    !.costs = [a \in LolsActions |-> 0],
                    !.t = @ + 1,
                    !.todo = IF last THEN <<>> ELSE SetToSeq(lols.limit0[1][lols.t + 2]),
                    !.pc = IF last THEN "backward" ELSE "run"]
  /\ obs' = [obs EXCEPT
       !.last = "end",
       !.losses = IF lols.phase = "deviations" /\ Tail(lols.todo) = <<>>
                  THEN Append(@, [lols.costs EXCEPT ![Head(lols.todo)] = l])
                  ELSE @]
  /\ UNCHANGED <<env, mods, heap, runner>> /\ LolsFrame

\* objective.backward(), line 219
LolsBackward ==
  /\ lols.pc = "backward"
  /\ lols' = [lols EXCEPT !.pc = "done", !.backward = @ + 1]
  /\ obs' = [obs EXCEPT !.last = "backward"]
  /\ UNCHANGED <<env, mods, heap, runner>> /\ LolsFrame

LolsNext ==
  \/ LolsRun
  \/ LolsRunnerCall
  \/ \E l \in 0..MaxLolsLoss : LolsEpisodeEnd(l)
  \/ LolsBackward

SpecLols == LolsInit /\ [][LolsNext]_vars

\* C4: within one lols() call no feature a StaticFeatures of the trained
\* policy holds is discarded, and its abstract _forward runs at most once.
C4_StaticSurvivesReplays ==
  \A n \in CachesUnder(LolsPolicy) \cap Statics :
    obs.fwd[n] <= 1 /\ obs.dropped[n] = 0

(***************************************************************************)
(* lols(): the deviation replays                                           *)
(***************************************************************************)
\* a deviation replay is running or has raised
InReplay == lols.phase = "deviations" /\ lols.pc \in {"episode", "failed"}

\* the actions the replay (lols.t, Head(lols.todo)) has taken so far are the
\* backbone's before lols.t and the deviation at lols.t, and the action of
\* the last call after lols.t is the answer of the roll-out's source
ReplayFollowsPlan ==
  InReplay =>
    /\ \A i \in 1..Len(runner.trajectory) :
         /\ i - 1 < lols.t => runner.trajectory[i] = lols.traj0[1][i]
         /\ i - 1 = lols.t => runner.trajectory[i] = Head(lols.todo)
         /\ i - 1 > lols.t => runner.run_strategy[i - 1] = <<lols.rollout>>
    /\ (obs.last = "call" /\ Len(runner.trajectory) - 1 > lols.t) =>
         runner.trajectory[Len(runner.trajectory)] =
           (IF lols.rollout = REF THEN obs.ref ELSE obs.pol)

\* C17 (as claimed): the deviation replay (t, a) takes the backbone's actions
\* traj0[0..t-1] before step t, a at step t, the roll-out's choice on every
\* step after t, and never trips EpisodeRunner's illegal-action assertion.
C17_ReplayNeverTrips ==
  /\ ReplayFollowsPlan
  /\ ~(InReplay /\ lols.pc = "failed")

\* C17 (what holds): the same without the last part -- the steps a replay
\* records are the backbone's before t, a at t and the roll-out's after t;
\* a roll-out step that asks the policy may still raise.
C17_ReplayRecordsPlan == ReplayFollowsPlan

\* a replay that has rolled out past its deviation
C17_Witness ==
  /\ InReplay /\ obs.last = "call"
  /\ lols.t = 0 /\ Len(runner.trajectory) = MaxLolsT
  /\ runner.trajectory[1] = Head(lols.todo)

\* the number of actions in the first n legal sets of the backbone
RECURSIVE SumLimit(_, _)
SumLimit(limit, n) == IF n = 0 THEN 0 ELSE SumLimit(limit, n - 1) + Cardinality(limit[n])

\* lols() is over: it returned or an exception left it
LolsEnded == lols.pc \in {"done", "failed"}

\* what a lols() call that went through all its replays has done
FullCount ==
  /\ obs.episodes = 1 + SumLimit(lols.limit0[1], Len(lols.limit0[1]))
  /\ Len(lols.objective) = Len(lols.costs0[1])
  /\ lols.backward = 1

\* C18 (as claimed): one lols() call runs 1 + sum over the backbone's
\* timesteps t of |limit0[t]| episodes, accumulates one
\* forward_partial_complete term per timestep and invokes backward() once.
C18_EpisodesPerCall == (LolsEnded /\ lols.limit0 # None) => FullCount

\* C18 (what holds): a call that returns has done all of that; at any moment
\* the episodes started are the backbone and the replays of the timesteps
\* before lols.t and of the actions of limit0[lols.t] already taken from
\* todo, one term is accumulated per finished timestep, and backward() has
\* run only if the call returned.
C18_ReturnedCallCounts ==
  /\ lols.pc = "done" => FullCount
  /\ lols.backward = (IF lols.pc = "done" THEN 1 ELSE 0)
  /\ lols.phase = "deviations" =>
       LET limit0 == lols.limit0[1]
           here == IF lols.t < Len(limit0) THEN Cardinality(limit0[lols.t + 1]) ELSE 0
       IN /\ Len(lols.objective) = lols.t
          /\ obs.episodes = 1 + SumLimit(limit0, lols.t) + (here - Len(lols.todo))
                            + (IF lols.pc \in {"episode", "failed"} THEN 1 ELSE 0)

\* the least of the values f takes on the set S
MinOver(f, S) == CHOOSE x \in {f[a] : a \in S} : \A a \in S : x <= f[a]

\* the actions of S at which f is least
ArgMins(f, S) == {a \in S : f[a] = MinOver(f, S)}

\* C19 (as claimed): the target passed to forward_partial_complete for
\* timestep t holds, for every action legal at t, its deviation loss minus
\* the least deviation loss over the legal actions: the cheapest legal
\* action has target 0, no legal target is negative, and the legal argmin is
\* that of the unshifted losses.
C19_TargetShiftedByLegalMin ==
  \A k \in 1..Len(lols.objective) :
    LET term == lols.objective[k]
        l == obs.losses[k]
    IN /\ \A a \in term.actions : term.truth[a] = l[a] - MinOver(l, term.actions)
       /\ \E a \in term.actions : term.truth[a] = 0
       /\ \A a \in term.actions : term.truth[a] >= 0
       /\ ArgMins(term.truth, term.actions) = ArgMins(l, term.actions)

\* C19 (what holds): the shift is the least entry of the whole vector, the
\* zeros of the illegal actions included; legal targets are not negative and
\* keep their argmin, but the cheapest is 0 only if the vector has no
\* smaller entry.
C19_TargetShiftedByMin ==
  \A k \in 1..Len(lols.objective) :
    LET term == lols.objective[k]
        l == obs.losses[k]
    IN /\ \A a \in LolsActions : term.truth[a] = l[a] - MinOf(l)
       /\ \A a \in LolsActions \ term.actions : l[a] = 0
       /\ \A a \in term.actions : term.truth[a] >= 0
       /\ ArgMins(term.truth, term.actions) = ArgMins(l, term.actions)

(***************************************************************************)
(* Actor.t                                                                 *)
(***************************************************************************)
\* the last operation was a forward of Actor n that returned a feature
ActorReturned(n) ==
  obs.last.op = "Actor" /\ obs.last.node = n /\ obs.last.result = "ok"

\* C20 (as claimed): in every state after Actor.forward has been called in
\* an episode, Actor.t is the length of the environment's trajectory and
\* 0 <= Actor.t < T, T the horizon captured on the first call.
C20_ActorTIsLength ==
  \A n \in Actors :
    (env.pc = "running" /\ mods[n]._features # None) =>
      /\ mods[n].t = Some(Len(env._trajectory))
      /\ mods[n].T = Some(env.T)
      /\ 0 <= mods[n].t[1] /\ mods[n].t[1] < mods[n].T[1]

\* C20 (what holds): when Actor.forward returns, Actor.t is the length of
\* the trajectory if the feature was cached and one more if this call
\* computed it; 0 <= Actor.t <= T, and Actor.t < T in the cached case.
C20_ActorTAfterForward ==
  \A n \in Actors :
    ActorReturned(n) =>
      LET len == Len(env._trajectory)
          computed == n \in obs.last.invoked
      IN /\ mods[n].T = Some(env.T)
         /\ mods[n].t = Some(IF computed THEN len + 1 ELSE len)
         /\ 0 <= mods[n].t[1] /\ mods[n].t[1] <= mods[n].T[1]
         /\ ~computed => mods[n].t[1] < mods[n].T[1]

\* a forward that computed the feature of the last timestep: Actor.t = T
C20_Witness ==
  \E n \in Actors :
    /\ ActorReturned(n) /\ n \in obs.last.invoked
    /\ env.pc = "running"
    /\ Len(env._trajectory) = env.T - 1
    /\ mods[n].t = Some(env.T)

(***************************************************************************)
(* lols(): the features an Actor returns                                   *)
(***************************************************************************)
\* lols() with a loss that is 0 on every episode: which features the Actors
\* compute and return does not depend on the losses run() takes
ReplayNext ==
  \/ LolsRun
  \/ LolsRunnerCall
  \/ LolsEpisodeEnd(0)
  \/ LolsBackward

SpecReplay == LolsInit /\ [][ReplayNext]_vars

\* within the episode under way no Actor's _forward ran twice for a timestep
OncePerTimestep ==
  \A n \in Actors : \A i \in 1..MaxLolsT : obs.runs[n][i] <= 1

\* every feature an Actor holds for a timestep up to the current one was
\* computed at the prefix of that length of the current trajectory
FromCurrentPrefix ==
  \A n \in Actors : \A i \in Populated(mods[n]) :
    i - 1 <= Len(env._trajectory) =>
      obs.src[n][i] = Some(SubSeq(env._trajectory, 1, i - 1))

\* the second forward of the last call returned what the first had returned
\* and ran no _forward
RepeatReturnsCached ==
  obs.mid # None => (obs.ret2 = obs.ret1 /\ obs.ret1 # None /\ obs.second = {})

\* C21 (as claimed): within an episode Actor._forward runs at most once per
\* timestep, a repeated forward at the same trajectory length returns the
\* cached entry without changing state, and the feature returned at step t
\* of a replay was computed from the replay's current prefix.
C21_NeverStaleNoChange ==
  /\ OncePerTimestep
  /\ RepeatReturnsCached
  /\ obs.mid # None => mods = obs.mid[1]
  /\ FromCurrentPrefix

\* C21 (what holds): the same, except that the repeated forward does change
\* state: it leaves every cached feature and every other module alone, but
\* sets Actor.t, which the computing forward had advanced by one, back to
\* the trajectory length of the call.
C21_NeverStale ==
  /\ OncePerTimestep
  /\ RepeatReturnsCached
  /\ obs.mid # None =>
       \A n \in Nodes :
         IF n \in CachesUnder(runner.policy) \cap Actors
         THEN /\ [mods[n] EXCEPT !.t = None] = [obs.mid[1][n] EXCEPT !.t = None]
              /\ obs.mid[1][n].t = Some(Len(env._trajectory))
              /\ mods[n].t = Some(Len(env._trajectory) - 1)
         ELSE mods[n] = obs.mid[1][n]
  /\ FromCurrentPrefix

\* a replay that left the backbone at step 1 has been given the feature of
\* step 2, computed at its own prefix
C21_Witness ==
  /\ InReplay /\ obs.last = "call"
  /\ Len(env._trajectory) = 3
  /\ SubSeq(env._trajectory, 1, 2) # SubSeq(lols.traj0[1], 1, 2)
  /\ \E n \in Actors :
       /\ 3 \in Populated(mods[n])
       /\ obs.src[n][3] = Some(SubSeq(env._trajectory, 1, 2))
       /\ obs.ret2 = mods[n]._features[1][3]

(***************************************************************************)
(* An EpisodeRunner on its own: one episode under any run strategy         *)
(***************************************************************************)
\* what a run strategy may yield at a step: REF, LEARN, a forced action, or
\* the bare tag ACT, which __call__ does not recognise
RunnerTags == {StratRef, StratLearn, <<ACT>>} \cup {StratAct(a) : a \in LolsActions}

\* the variables an EpisodeRunner's episode leaves alone
RunnerFrame == UNCHANGED <<loss, tiedrnd, osd, linpol, bandit, baseline, lols>>

RunnerRestIdle ==
  loss = Idle /\ tiedrnd = Idle /\ osd = Idle /\ linpol = Idle /\ bandit = Idle
  /\ baseline = Idle /\ lols = Idle

\* obs.result: how the last call ended; obs.pol, obs.ref: what the policy
\* and the reference answered in it; obs.calls: the calls made
RunnerInit ==
  /\ \E run_strategy \in [LolsSteps -> RunnerTags] :
       runner = EpisodeRunnerNew(LolsPolicy, run_strategy)
  /\ env = LolsEnvNew
  /\ mods = [n \in Nodes |-> ModuleNew(n)]
  /\ heap = 0
  /\ obs = [result |-> "new", pol |-> 0, ref |-> 0, calls |-> 0]
  /\ RunnerRestIdle

\* one step of _run_episode(runner): the runner is asked for an action and
\* the environment takes it; an exception ends the episode
RunnerStep ==
  /\ obs.result \in {"new", "ok"}
  /\ Len(env._trajectory) < env.T
  /\ \E pol \in LolsActions, ref \in LolsActions :
       LET c == EpisodeRunnerCall(runner, mods, heap, env, pol, ref) IN
       /\ runner' = c.runner /\ mods' = c.mods /\ heap' = c.heap
       /\ obs' = [result |-> c.result, pol |-> pol, ref |-> ref, calls |-> obs.calls + 1]
       /\ env' = IF c.result = "ok" THEN [env EXCEPT !._trajectory = Append(@, c.a[1])]
                 ELSE env
  /\ RunnerFrame

RunnerNext == RunnerStep

SpecRunner == RunnerInit /\ [][RunnerNext]_vars

\* the action a call selects: the reference's under REF, the policy's
\* under LEARN, the forced one under ACT; None for an unrecognised tag
SelectedAction(a_type, pol, ref) ==
  IF a_type = StratRef THEN Some(ref)
  ELSE IF a_type = StratLearn THEN Some(pol)
  ELSE IF Len(a_type) = 2 /\ a_type[1] = ACT THEN Some(a_type[2])
  ELSE None

\* C11: a call whose selected action is not in state.actions, or whose tag
\* is not recognised, fails and leaves trajectory, limited_actions, costs and
\* t as they were; and every recorded action is a member of the legal set
\* recorded for its step.
C11_NoIllegalActionRecorded ==
  /\ [][obs'.calls # obs.calls =>
          LET sel == SelectedAction(runner.run_strategy[runner.t], obs'.pol, obs'.ref)
          IN (IF sel = None THEN TRUE ELSE sel[1] \notin StateActions(env)) =>
               /\ obs'.result \in {"AssertionError", "ValueError"}
               /\ runner'.trajectory = runner.trajectory
               /\ runner'.limited_actions = runner.limited_actions
               /\ runner'.costs = runner.costs
               /\ runner'.t = runner.t]_vars
  /\ [](/\ Len(runner.trajectory) = Len(runner.limited_actions)
        /\ \A i \in 1..Len(runner.trajectory) :
             runner.trajectory[i] \in runner.limited_actions[i])

\* a call that failed on a forced action that is not legal at its step: the
\* reference's costs were taken and nothing else was recorded
C11_Witness ==
  /\ obs.result = "AssertionError" /\ obs.calls = 1
  /\ Len(runner.run_strategy[runner.t]) = 2
  /\ runner.run_strategy[runner.t][2] \notin StateActions(env)
  /\ runner.trajectory = <<>> /\ Len(runner.ref_costs) = 1

\* s is an initial part of q
IsPrefix(s, q) == Len(s) <= Len(q) /\ \A i \in 1..Len(s) : q[i] = s[i]

\* C12 (as claimed): after any number of calls in an episode trajectory,
\* limited_actions, costs and ref_costs all have length t, and a call only
\* appends to them.
C12_LogsInLockstep ==
  /\ [](/\ Len(runner.trajectory) = runner.t
        /\ Len(runner.limited_actions) = runner.t
        /\ Len(runner.costs) = runner.t
        /\ Len(runner.ref_costs) = runner.t)
  /\ [][/\ IsPrefix(runner.trajectory, runner'.trajectory)
        /\ IsPrefix(runner.limited_actions, runner'.limited_actions)
        /\ IsPrefix(runner.costs, runner'.costs)
        /\ IsPrefix(runner.ref_costs, runner'.ref_costs)]_vars

\* C12 (what holds): trajectory, limited_actions and costs have length t
\* after every call, ref_costs has length t after every call that returned
\* and t + 1 after one that failed, and a call only appends to the four.
C12_LockstepAfterReturns ==
  /\ [](/\ Len(runner.trajectory) = runner.t
        /\ Len(runner.limited_actions) = runner.t
        /\ Len(runner.costs) = runner.t
        /\ Len(runner.ref_costs) = IF obs.result \in {"new", "ok"} THEN runner.t
                                   ELSE runner.t + 1)
  /\ [][/\ IsPrefix(runner.trajectory, runner'.trajectory)
        /\ IsPrefix(runner.limited_actions, runner'.limited_actions)
        /\ IsPrefix(runner.costs, runner'.costs)
        /\ IsPrefix(runner.ref_costs, runner'.ref_costs)]_vars

\* the fields the exploration step fills
DevFields(b) == <<b.dev_a, b.dev_imp_weight, b.dev_actions, b.dev_costs>>

\* C13: dev_t is drawn once, on the first call, within 1..T; the dev_t-th
\* call and no other is the deviation step, so an episode of T calls has
\* exactly one; dev_a, dev_imp_weight, dev_actions and dev_costs change only
\* in that call and only from None.
C13_OneDeviationStep ==
  /\ [](/\ obs.draws = IF obs.calls = 0 THEN 0 ELSE 1
        /\ obs.calls > 0 => bandit.dev_t[1] \in 1..env.T
        /\ \A i \in 1..Len(obs.devcalls) : obs.devcalls[i] = bandit.dev_t[1]
        /\ Len(obs.devcalls) <= 1
        /\ obs.calls = env.T => obs.devcalls = <<bandit.dev_t[1]>>)
  /\ [][/\ (bandit.dev_t # None => bandit'.dev_t = bandit.dev_t)
        /\ (DevFields(bandit') # DevFields(bandit) =>
              /\ obs'.calls = obs.calls + 1 /\ obs'.calls = bandit'.dev_t[1]
              /\ DevFields(bandit) = <<None, None, None, None>>)]_vars

\* an episode of T calls whose deviation step explored and was followed by
\* further calls
C13_Witness ==
  /\ obs.calls = env.T /\ obs.last # "explore"
  /\ bandit.dev_a # None
  /\ bandit.dev_t[1] < env.T

\* C14: under MIX_PER_ROLL p_rollin_ref and p_rollout_ref are evaluated once
\* each, at construction, and a step before (after) dev_t returns the
\* reference's action exactly when the roll-in (roll-out) draw was true;
\* under MIX_PER_STATE a step off the deviation step evaluates its sampler
\* once and the deviation step none; a step that returns the reference's
\* action has invoked the policy.
C14_RollSources ==
  /\ [](bandit.mixture = MIX_PER_ROLL => obs.samples = [rollin |-> 1, rollout |-> 1])
  /\ [][obs'.calls = obs.calls + 1 =>
          LET t == obs'.calls
              dev_t == bandit'.dev_t[1]
              which == IF t < dev_t THEN "rollin" ELSE "rollout"
              other == IF t < dev_t THEN "rollout" ELSE "rollin"
          IN IF t = dev_t
             THEN obs'.last \in {"exploit", "explore"} /\ obs'.samples = obs.samples
             ELSE /\ obs'.last \in {"reference", "policy"}
                  /\ bandit.mixture = MIX_PER_ROLL =>
                       (obs'.last = "reference") =
                         (IF t < dev_t THEN bandit.use_in_ref ELSE bandit.use_out_ref)
                  /\ bandit.mixture = MIX_PER_STATE =>
                       /\ obs'.samples[which] = obs.samples[which] + 1
                       /\ obs'.samples[other] = obs.samples[other]
                  /\ obs'.last = "reference" => obs'.policy = obs.policy + 1]_vars

\* under MIX_PER_ROLL with a true roll-in draw and a false roll-out draw: a
\* step before dev_t that returned the reference's action
C14_Witness ==
  /\ bandit.mixture = MIX_PER_ROLL /\ bandit.use_in_ref /\ ~bandit.use_out_ref
  /\ obs.last = "reference" /\ obs.calls < bandit.dev_t[1]
  /\ obs.policy = 1

\* C15: after an exploration step dev_a is one of the legal actions
\* dev_actions recorded at the step, under every exploration strategy, and
\* under EXPLORE_UNIFORM the importance weight is their number.
C15_ExploredActionLegal ==
  bandit.dev_a # None =>
    /\ bandit.dev_a[1] \in bandit.dev_actions[1]
    /\ bandit.exploration = EXPLORE_UNIFORM =>
         bandit.dev_imp_weight[1] = Cardinality(bandit.dev_actions[1])

\* C15 (what holds): under EXPLORE_UNIFORM dev_a is one of dev_actions and
\* the importance weight is their number.
C15_UniformLegal ==
  (bandit.dev_a # None /\ bandit.exploration = EXPLORE_UNIFORM) =>
    /\ bandit.dev_a[1] \in bandit.dev_actions[1]
    /\ bandit.dev_imp_weight[1] = Cardinality(bandit.dev_actions[1])

(***************************************************************************)
(* An exploration step followed by build_cost_vector                       *)
(***************************************************************************)
\* a learner at its deviation step, about to explore; obs.predicted: what
\* predict_costs returned at the step, obs.out: build_cost_vector's result
DrInit ==
  /\ \E m \in LearningMethods, x \in Explorations :
       bandit = [BanditNew(m, x, RandDen, MIX_PER_ROLL, TRUE, TRUE, MaxBcvA)
                   EXCEPT !.t = Some(1), !.dev_t = Some(1)]
  /\ obs = [predicted |-> None, called |-> FALSE, baseline |-> 0, loss |-> 0, out |-> <<>>]
  /\ env = Idle /\ baseline = Idle
  /\ BanditRestIdle

\* the explore arm of the deviation step
DrExplore ==
  /\ obs.predicted = None
  /\ \E costs \in [BcvActions -> 0..MaxBcvCost], acts \in (SUBSET BcvActions) \ {{}} :
       /\ bandit' \in ExploreArm(bandit, costs, acts)
       /\ obs' = [obs EXCEPT !.predicted = Some(costs)]
  /\ UNCHANGED <<env, baseline>> /\ BanditFrame

\* build_cost_vector(baseline, loss) after the step
DrBuild(bl, lossval) ==
  /\ obs.predicted # None
  /\ obs' = [obs EXCEPT !.called = TRUE, !.baseline = bl, !.loss = lossval,
                        !.out = BuildCostVector(bandit, bl, lossval)]
  /\ UNCHANGED <<bandit, env, baseline>> /\ BanditFrame

DrNext ==
  \/ DrExplore
  \/ \E bl \in BaselineVals, lossval \in 0..MaxBcvLoss : DrBuild(bl, lossval)

SpecDr == DrInit /\ [][DrNext]_vars

\* C16: under LEARN_DR build_cost_vector returns, for every action other
\* than dev_a, the cost predict_costs gave for it at the exploration step,
\* and for dev_a that cost plus dev_imp_weight * (loss - that cost).
C16_DoublyRobust ==
  (obs.called /\ bandit.learning_method = LEARN_DR) =>
    LET predicted == obs.predicted[1]
        a == bandit.dev_a[1]
    IN /\ \A i \in DOMAIN obs.out : i # a => obs.out[i] = predicted[i]
       /\ obs.out[a] = predicted[a] + bandit.dev_imp_weight[1] * (obs.loss - predicted[a])

\* C16 (what holds): the same of the costs dev_costs holds after the step,
\* which are the predicted ones except where explore() wrote its surrogate
\* cost over them.
C16_DoublyRobustOfStored ==
  (obs.called /\ bandit.learning_method = LEARN_DR) =>
    LET stored == bandit.dev_costs[1]
        a == bandit.dev_a[1]
    IN /\ \A i \in DOMAIN obs.out : i # a => obs.out[i] = stored[i]
       /\ obs.out[a] = stored[a] + bandit.dev_imp_weight[1] * (obs.loss - stored[a])
       /\ \A i \in DOMAIN stored : stored[i] \in {obs.predicted[1][i], BigCost}

====
